---- MODULE Spec2Model ----
(***************************************************************************)
(* The upload-and-analyse endpoint (src/src/app/api/analyze/route.ts) as a  *)
(* state machine.  Every request is a handler instance of POST whose        *)
(* position pc[r] is one of its await points; handlers of different         *)
(* requests interleave at these points and share the temporary directory    *)
(* (fs), the wall clock (now) and the process environment (apiKey).         *)
(***************************************************************************)
EXTENDS Integers, Sequences, FiniteSets, TLC

VARIABLES
    pc,         \* request -> await point of POST the handler is suspended at
    req,        \* request -> the incoming request (content type, form file)
    tmpPath,    \* request -> tmpPath (route.ts:84)
    jsonData,   \* request -> outcome of the try block around parseFile
    retries,    \* request -> retries (route.ts:189)
    delay,      \* request -> delay (route.ts:190)
    response,   \* request -> the last Response obtained from fetch
    resp,       \* request -> the NextResponse returned by POST
    calls,      \* request -> number of fetch calls issued (history)
    waits,      \* request -> delays handed to setTimeout, in order (history)
    attempts,   \* request -> how each completed attempt ended (history)
    promptBuilt,\* request -> safePrompt has been constructed (history)
    analysisDataForLLM, \* request -> analysisDataForLLM (route.ts:113)
    parsedFrom, \* request -> the directory entry parseFile read (history)
    unlinked,   \* request -> what fs.unlink(tmpPath) did (history)
    wrote,      \* request -> fs.writeFile(tmpPath) succeeded (history)
    fs,         \* path -> entry of os.tmpdir()
    now,        \* Date.now()
    apiKey,     \* process.env.GEMINI_API_KEY
    \* the browser: UploadPage (upload/page.tsx), DataProvider
    \* (DataContext.tsx) and DashboardPage (part_000)
    pageFile,       \* file of UploadPage
    loading,        \* loading of UploadPage
    error,          \* error of UploadPage
    successMessage, \* successMessage of UploadPage
    submit,         \* await point of handleSubmit: "idle", "fetch" or "json"
    res,            \* res of handleSubmit
    analysis,       \* analysis of DataProvider
    sessionStorage, \* sessionStorage.getItem('aiAnalysisData')
    timers,         \* pending setTimeout callbacks of handleSubmit
    route,          \* the page the router shows
    dashEffect,     \* the effect of DashboardPage is due to run
    \* DataTable (part_003)
    data,           \* data prop
    searchTerm,     \* searchTerm
    sortColumn,     \* sortColumn
    sortDirection,  \* sortDirection
    currentPage,    \* currentPage
    tableEffect     \* the effect of DataTable is due to run

routeVars == <<pc, req, tmpPath, jsonData, retries, delay, response, resp, calls,
               waits, attempts, promptBuilt, analysisDataForLLM, parsedFrom, unlinked,
               wrote, fs, now, apiKey>>
pageVars == <<pageFile, loading, error, successMessage, submit, res, analysis,
              sessionStorage, timers, route, dashEffect>>
tableVars == <<data, searchTerm, sortColumn, sortDirection, currentPage, tableEffect>>

vars == <<routeVars, pageVars, tableVars>>

(***************************************************************************)
(* Bounds of the model.                                                     *)
(***************************************************************************)
NumReq == 2      \* concurrent requests in SpecConc
MaxClock == 1    \* Date.now() ranges over 0..MaxClock
MaxTimers == 2   \* redirect timers of UploadPage pending together

(***************************************************************************)
(* Configuration constants of route.ts.                                     *)
(***************************************************************************)
MAX_FILE_SIZE == 10 * 1024 * 1024
MAX_ROWS_TO_ANALYZE == 1000
SUPPORTED_EXTENSIONS == <<".csv", ".xlsx", ".xls", ".txt">>
MAX_RETRIES == 5
INITIAL_DELAY == 1000

(***************************************************************************)
(* JavaScript values.  Each type has its own field name, so values of       *)
(* different types are never compared component by component.               *)
(***************************************************************************)
Undefined == [undef |-> TRUE]
JNull == [null |-> TRUE]
Str(s) == [str |-> s]
Num(n) == [num |-> n]
Arr(a) == [arr |-> a]
Obj(f) == [obj |-> f]
\* a string whose characters are the JSON serialisation of v
JsonText(v) == [jsontext |-> v]

IsUndefined(v) == "undef" \in DOMAIN v
IsNull(v) == "null" \in DOMAIN v
IsString(v) == "str" \in DOMAIN v \/ "jsontext" \in DOMAIN v
IsArray(v) == "arr" \in DOMAIN v
IsObject(v) == "obj" \in DOMAIN v

\* ToBoolean, as used by !x and x || y
Truthy(v) ==
    IF IsUndefined(v) \/ IsNull(v) THEN FALSE
    ELSE IF "str" \in DOMAIN v THEN v.str # ""
    ELSE IF "num" \in DOMAIN v THEN v.num # 0
    ELSE TRUE

\* v.k : reading a property of null or undefined throws a TypeError
Throws(v) == IsUndefined(v) \/ IsNull(v)
Get(v, k) ==
    IF IsObject(v) /\ k \in DOMAIN v.obj THEN v.obj[k] ELSE Undefined

\* JSON.parse(text): the value, or a SyntaxError
JSONParseThrows(text) == "jsontext" \notin DOMAIN text
JSONParse(text) == text.jsontext

(***************************************************************************)
(* Uploaded files.  A file name is its dot-separated parts; the bytes of a  *)
(* file are the sheet the decoder (XLSX.read / XLSX.readFile) finds in      *)
(* them, or corrupt bytes the decoder throws on.  A cell "" is an empty     *)
(* cell.                                                                    *)
(***************************************************************************)
\* the extension taken as it is written
toLowerCase_Identity(ext) == ext

\* String.prototype.toLowerCase on the extensions that occur
toLowerCase(ext) ==
    CASE ext = ".CSV" -> ".csv"
      [] ext = ".XLSX" -> ".xlsx"
      [] ext = ".Txt" -> ".txt"
      [] ext = ".PDF" -> ".pdf"
      [] OTHER -> ext

\* path.extname(name): the last dot and what follows it, "" when there is no
\* dot or the only dot starts the name
extname(name) ==
    IF Len(name) < 2 \/ (Len(name) = 2 /\ name[1] = "") THEN ""
    ELSE "." \o name[Len(name)]

\* SUPPORTED_EXTENSIONS.includes(fileExt)
Includes(seq, x) == \E i \in 1..Len(seq) : seq[i] = x

\* fileExt.match(/\.xls[x]?/i) on a lower-cased extension
IsExcelExt(fileExt) == fileExt \in {".xls", ".xlsx"}

\* one row object of sheet_to_json: the non-empty cells under their header,
\* in column order, as <<key, value>> pairs
RECURSIVE RowPairs(_, _, _)
RowPairs(header, cells, i) ==
    IF i > Len(header) \/ i > Len(cells) THEN <<>>
    ELSE IF cells[i] = "" THEN RowPairs(header, cells, i + 1)
    ELSE <<(<<header[i], cells[i]>>)>> \o RowPairs(header, cells, i + 1)

\* XLSX.utils.sheet_to_json(worksheet): one object per non-blank data row,
\* here for the data rows lo..hi, halving the range
RECURSIVE SheetRows(_, _, _, _)
SheetRows(header, rows, lo, hi) ==
    IF lo > hi THEN <<>>
    ELSE IF lo = hi
    THEN LET row == RowPairs(header, rows[lo], 1)
         IN  IF row = <<>> THEN <<>> ELSE <<row>>
    ELSE LET mid == (lo + hi) \div 2
         IN  SheetRows(header, rows, lo, mid) \o SheetRows(header, rows, mid + 1, hi)

sheet_to_json(sheet) == SheetRows(sheet.header, sheet.rows, 1, Len(sheet.rows))

\* Object.keys(row)
ObjectKeys(row) == [i \in 1..Len(row) |-> row[i][1]]

NoEntry == [exists |-> FALSE]
Entry(r, bytes) == [exists |-> TRUE, by |-> r, bytes |-> bytes]

\* a decoder that answers corrupt bytes with an empty sheet
parseFile_Lenient(dir, filePath, fileExt) ==
    IF ~dir[filePath].exists THEN [threw |-> TRUE, rows |-> <<>>]
    ELSE IF dir[filePath].bytes.corrupt THEN [threw |-> FALSE, rows |-> <<>>]
    ELSE [threw |-> FALSE, rows |-> sheet_to_json(dir[filePath].bytes)]

\* parseFile(filePath, fileExt): both branches read the bytes now at
\* filePath and hand them to the same decoder; a missing file or corrupt
\* bytes make it throw
parseFile(dir, filePath, fileExt) ==
    LET entry == dir[filePath]
    IN  IF IsExcelExt(fileExt)
        THEN IF ~entry.exists \/ entry.bytes.corrupt
             THEN [threw |-> TRUE, rows |-> <<>>]
             ELSE [threw |-> FALSE, rows |-> sheet_to_json(entry.bytes)]
        ELSE IF ~entry.exists
             THEN [threw |-> TRUE, rows |-> <<>>]
             ELSE IF entry.bytes.corrupt
                  THEN [threw |-> TRUE, rows |-> <<>>]
                  ELSE [threw |-> FALSE, rows |-> sheet_to_json(entry.bytes)]

(***************************************************************************)
(* The responses of POST.                                                   *)
(***************************************************************************)
NoResponse == [status |-> 0, body |-> [none |-> TRUE]]

ContentTypeError == "Content-Type must be multipart/form-data"
NoFileError == "No file received"
FileSizeError == "File exceeds 10MB limit"
ExtensionError == "Unsupported file extension. Supported: .csv, .xlsx, .xls, .txt"
ParseError == "Failed to parse file. Please ensure it is a valid CSV, Excel, or TXT format."
EmptyError == "No parsable data found in the file. It might be empty or malformed."
ApiKeyError == "API key not configured. Please set GEMINI_API_KEY environment variable."
InternalError == "Data analysis failed due to an internal server error."
EmptyResponseMsg == "Invalid or empty response from Gemini API."
JsonParseMsg == "Failed to parse AI response as JSON."
StructureMsg == "Invalid AI response structure: Missing summary or charts array from Gemini."
NullSummaryMsg == "Cannot read properties of null (reading 'summary')"
FormDataMsg == "Failed to parse body as FormData."
SyntaxErrorMsg == "Unexpected token in JSON at position 0"
WriteFileMsg == "ENOSPC: no space left on device, write"

\* NextResponse.json({ error }) without its status option
ErrorResponse_NoStatus(msg, status) == [status |-> 200, body |-> [error |-> msg]]

\* NextResponse.json({ error }, { status })
ErrorResponse(msg, status) == [status |-> status, body |-> [error |-> msg]]

\* an outer catch that rethrows: the handler ends without a response
Caught_Escapes(message) == [status |-> 0, body |-> [none |-> TRUE]]

\* the outer catch when `error instanceof Error` is taken to be false
Caught_Unknown(message) ==
    [status |-> 500,
     body |-> [error |-> InternalError, details |-> "An unknown error occurred."]]

\* the outer catch (route.ts:247-257): error is a thrown Error with this message
Caught(message) ==
    [status |-> 500, body |-> [error |-> InternalError, details |-> message]]

\* slice(1, n): the first row is left out
Slice_FromSecond(seq, n) == SubSeq(seq, 2, IF Len(seq) < n THEN Len(seq) ELSE n)

\* Array.prototype.slice(0, n)
Slice(seq, n) == SubSeq(seq, 1, IF Len(seq) < n THEN Len(seq) ELSE n)

\* the condition of route.ts:218-220 on result
EmptyResult(result) ==
    \/ ~Truthy(result)
    \/ ~Truthy(Get(result, "candidates"))
    \/ Len(Get(result, "candidates").arr) = 0
    \/ ~Truthy(Get(Get(result, "candidates").arr[1], "content"))
    \/ ~Truthy(Get(Get(Get(result, "candidates").arr[1], "content"), "parts"))
    \/ Len(Get(Get(Get(result, "candidates").arr[1], "content"), "parts").arr) = 0

\* the condition of route.ts:233 on parsedResult
BadStructure(parsedResult) ==
    ~Truthy(Get(parsedResult, "summary")) \/ ~IsArray(Get(parsedResult, "charts"))

\* the inner catch rethrowing the SyntaxError it caught
ParseCatch_Rethrow(parseError) == parseError

\* the catch of route.ts:228-231: whatever JSON.parse threw, a new Error
\* with a fixed message is thrown
ParseCatch(parseError) == JsonParseMsg

\* Object.keys(analysisDataForLLM[0] || {}) (route.ts:114)
Columns(sample) ==
    IF Len(sample) = 0 THEN <<>> ELSE ObjectKeys(sample[1])

\* the sample returned in place of the full dataset
RawData_Sample(rows) ==
    SubSeq(rows, 1, IF Len(rows) < MAX_ROWS_TO_ANALYZE THEN Len(rows)
                    ELSE MAX_ROWS_TO_ANALYZE)

\* rawData: jsonData (route.ts:244)
RawData(rows) == rows

\* route.ts:218-257: from the result of the retry loop to the response
Finish(rows, result) ==
    IF EmptyResult(result) THEN Caught(EmptyResponseMsg)
    ELSE LET jsonText ==
                 Get(Get(Get(Get(result, "candidates").arr[1], "content"),
                         "parts").arr[1], "text")
         IN  IF JSONParseThrows(jsonText) THEN Caught(ParseCatch(SyntaxErrorMsg))
             ELSE LET parsedResult == JSONParse(jsonText)
                  IN  IF Throws(parsedResult) THEN Caught(NullSummaryMsg)
                      ELSE IF BadStructure(parsedResult) THEN Caught(StructureMsg)
                      ELSE [status |-> 200,
                            body |->
                              [success |-> TRUE,
                               summary |-> Get(parsedResult, "summary"),
                               kpis |-> IF Truthy(Get(parsedResult, "kpis"))
                                        THEN Get(parsedResult, "kpis")
                                        ELSE Arr(<<>>),
                               charts |-> Get(parsedResult, "charts"),
                               columns |-> Columns(Slice(rows, MAX_ROWS_TO_ANALYZE)),
                               totalRows |-> Len(rows),
                               rawData |-> RawData(rows)]]

\* a loop that allows one attempt fewer
WhileCond_Short(n) == n < MAX_RETRIES - 1

\* the loop condition written with <= instead of <
WhileCond_OffByOne(n) == n <= MAX_RETRIES

\* the condition of the retry loop (route.ts:192)
WhileCond(n) == n < MAX_RETRIES

\* a backoff that grows by the initial delay instead of doubling
NextDelay_Linear(d) == d + INITIAL_DELAY

\* the backoff without its doubling
NextDelay_Constant(d) == d

\* delay *= 2 (route.ts:203, 214)
NextDelay(d) == d * 2

\* the key check that lets the empty key through
MissingKey_Never(key) == FALSE

\* the size check written with >= instead of >
TooLarge_Inclusive(size) == size >= MAX_FILE_SIZE

\* file.size > MAX_FILE_SIZE (route.ts:66)
TooLarge(size) == size > MAX_FILE_SIZE

\* !apiKey (route.ts:176)
MissingKey(key) == key = ""

\* the empty check that lets every dataset through
NoRows_Never(rows) == FALSE

\* !jsonData.length (route.ts:105)
NoRows(rows) == Len(rows) = 0

\* an unlink that empties the file and leaves it in the directory
Remove_Truncate(dir, path) ==
    [dir EXCEPT ![path] = [exists |-> TRUE, by |-> dir[path].by,
                           bytes |-> [corrupt |-> FALSE, header |-> <<>>, rows |-> <<>>]]]

\* an unlink that leaves the directory as it is
Remove_Nothing(dir, path) == dir

\* the effect of a successful fs.unlink(path) (route.ts:99)
Remove(dir, path) == [dir EXCEPT ![path] = NoEntry]

(***************************************************************************)
(* Inputs: the requests a client can send and the replies the remote        *)
(* endpoint can give.                                                       *)
(***************************************************************************)
CorruptBytes == [corrupt |-> TRUE, header |-> <<>>, rows |-> <<>>]
EmptyBytes == [corrupt |-> FALSE, header |-> <<>>, rows |-> <<>>]
HeaderOnlyBytes == [corrupt |-> FALSE, header |-> <<"date", "revenue">>, rows |-> <<>>]
SalesBytes ==
    [corrupt |-> FALSE, header |-> <<"date", "revenue">>,
     rows |-> <<(<<"d1", "10">>), (<<"d2", "20">>), (<<"d3", "30">>)>>]
NamesBytes ==
    [corrupt |-> FALSE, header |-> <<"name">>, rows |-> <<(<<"ann">>)>>]

NoFile == [null |-> TRUE]
File(name, size, bytes) == [name |-> name, size |-> size, bytes |-> bytes]

Multipart == Str("multipart/form-data; boundary=x")
\* contentType?.includes('multipart/form-data')
IsMultipart(contentType) == contentType = Multipart

\* optional field: a record without the fields whose value is Undefined
MkObj(summary, charts, kpis) ==
    LET val == [summary |-> summary, charts |-> charts, kpis |-> kpis]
    IN  Obj([k \in {f \in {"summary", "charts", "kpis"} : ~IsUndefined(val[f])}
               |-> val[k]])

BarChart ==
    Obj([type |-> Str("bar"), x |-> Str("date"), y |-> Str("revenue"),
         title |-> Str("Revenue"), insight |-> Str("flat")])

ModelOutputs ==
    {JNull, Num(42)} \cup
    {MkObj(s, c, k) :
        s \in {Undefined, Str(""), Str("ok"), Num(7)},
        c \in {Undefined, Arr(<<BarChart>>), Str("bar")},
        k \in {Undefined, Arr(<<Str("Revenue: $100")>>), Str("none")}}

GoodOutput == MkObj(Str("ok"), Arr(<<BarChart>>), Arr(<<Str("Revenue: $100")>>))

\* the text of the first part: absent, not JSON, or the JSON of a value
ModelTexts == {Undefined, Str("not json")} \cup {JsonText(v) : v \in ModelOutputs}

\* a reply body with one candidate whose first part is part
Candidate(part) ==
    Obj([candidates |-> Arr(<<Obj([content |-> Obj([parts |-> Arr(<<part>>)])])>>)])
Part(text) == IF IsUndefined(text) THEN Obj(<<>>) ELSE Obj([text |-> text])

ResultValues ==
    {JNull,
     Obj([error |-> Str("quota")]),
     Obj([candidates |-> Arr(<<>>)]),
     Obj([candidates |-> Arr(<<Obj([finishReason |-> Str("SAFETY")])>>)]),
     Obj([candidates |-> Arr(<<Obj([content |-> Obj([role |-> Str("model")])])>>)]),
     Obj([candidates |-> Arr(<<Obj([content |-> Obj([parts |-> Arr(<<>>)])])>>)])}
    \cup {Candidate(Part(t)) : t \in ModelTexts}

\* the outcome of one fetch: the promise rejects, or resolves to a Response
Reject == [reject |-> TRUE, status |-> 0, body |-> Undefined]
Reply(status, body) == [reject |-> FALSE, status |-> status, body |-> body]
NoReply == [reject |-> FALSE, status |-> 0, body |-> Undefined]
HtmlBody == Str("<html>")

Outcomes ==
    {Reject, Reply(429, HtmlBody), Reply(500, HtmlBody)} \cup
    {Reply(200, JsonText(v)) : v \in ResultValues} \cup
    {Reply(500, JsonText(v)) :
        v \in {Obj([error |-> Str("quota")]), Candidate(Part(JsonText(GoodOutput)))}}

Names == {<<"d", "csv">>, <<"d", "XLSX">>, <<"d", "pdf">>}

\* what the single request of Spec may meet
FullEnv ==
    [contentTypes |-> {Multipart, Str("application/json"), JNull},
     files |-> {NoFile} \cup
               {File(n, sz, b) :
                   n \in Names, sz \in {MAX_FILE_SIZE, MAX_FILE_SIZE + 1},
                   b \in {CorruptBytes, EmptyBytes, HeaderOnlyBytes, SalesBytes}},
     formDataThrows |-> BOOLEAN,
     writeThrows |-> BOOLEAN,
     unlinkFails |-> BOOLEAN,
     outcomes |-> Outcomes]

\* what the concurrent requests of SpecConc may meet
ConcEnv ==
    [contentTypes |-> {Multipart, JNull},
     files |-> {File(<<"d", "csv">>, MAX_FILE_SIZE, b) : b \in {SalesBytes, NamesBytes}},
     formDataThrows |-> BOOLEAN,
     writeThrows |-> BOOLEAN,
     unlinkFails |-> BOOLEAN,
     outcomes |-> {Reply(429, HtmlBody),
                   Reply(200, JsonText(Candidate(Part(JsonText(GoodOutput)))))}]

\* the first data row has an empty cell that the second row fills
GapBytes ==
    [corrupt |-> FALSE, header |-> <<"date", "revenue", "region">>,
     rows |-> <<(<<"d1", "", "east">>), (<<"d2", "20", "west">>)>>]
\* a later data row has an empty cell, and one row is blank
TailGapBytes ==
    [corrupt |-> FALSE, header |-> <<"date", "revenue">>,
     rows |-> <<(<<"d1", "10">>), (<<"", "">>), (<<"d2", "">>)>>]
\* one row more than MAX_ROWS_TO_ANALYZE
BigBytes ==
    [corrupt |-> FALSE, header |-> <<"n">>,
     rows |-> [i \in 1..(MAX_ROWS_TO_ANALYZE + 1) |-> <<ToString(i)>>]]

DataNames ==
    {<<"d", "csv">>, <<"d", "CSV">>, <<"d", "XLSX">>, <<"d", "xls">>,
     <<"d", "Txt">>, <<"d", "pdf">>, <<"d", "PDF">>, <<"d">>, <<"", "csv">>,
     <<"d", "csv", "exe">>}

NoKpisOutput == MkObj(Str("ok"), Arr(<<BarChart>>), Undefined)

\* what the single request of SpecData may meet: many names, sizes and
\* sheets, few replies
DataEnv ==
    [contentTypes |-> {Multipart, JNull},
     files |-> {NoFile} \cup
               {File(n, sz, SalesBytes) :
                   n \in DataNames,
                   sz \in {MAX_FILE_SIZE - 1, MAX_FILE_SIZE, MAX_FILE_SIZE + 1}} \cup
               {File(<<"d", "csv">>, MAX_FILE_SIZE, b) :
                   b \in {CorruptBytes, EmptyBytes, HeaderOnlyBytes, GapBytes,
                          TailGapBytes, BigBytes}},
     formDataThrows |-> BOOLEAN,
     writeThrows |-> BOOLEAN,
     unlinkFails |-> BOOLEAN,
     outcomes |-> {Reply(429, HtmlBody),
                   Reply(200, JsonText(Obj([error |-> Str("quota")]))),
                   Reply(200, JsonText(Candidate(Part(JsonText(GoodOutput))))),
                   Reply(200, JsonText(Candidate(Part(JsonText(NoKpisOutput)))))}]

Paths == (0..MaxClock) \X {".csv", ".xlsx", ".xls", ".txt"}
NoPath == <<0, "">>

(***************************************************************************)
(* The state after construction: no request has arrived, the temporary      *)
(* directory is empty, the environment has or lacks the API key.            *)
(***************************************************************************)
InitFor(R) ==
    /\ pc = [r \in R |-> "idle"]
    /\ req = [r \in R |-> [contentType |-> JNull, file |-> NoFile]]
    /\ tmpPath = [r \in R |-> NoPath]
    /\ jsonData = [r \in R |-> [threw |-> FALSE, rows |-> <<>>]]
    /\ retries = [r \in R |-> 0]
    /\ delay = [r \in R |-> 0]
    /\ response = [r \in R |-> NoReply]
    /\ resp = [r \in R |-> NoResponse]
    /\ calls = [r \in R |-> 0]
    /\ waits = [r \in R |-> <<>>]
    /\ attempts = [r \in R |-> <<>>]
    /\ promptBuilt = [r \in R |-> FALSE]
    /\ analysisDataForLLM = [r \in R |-> <<>>]
    /\ parsedFrom = [r \in R |-> NoEntry]
    /\ unlinked = [r \in R |-> "none"]
    /\ wrote = [r \in R |-> FALSE]
    /\ fs = [p \in Paths |-> NoEntry]
    /\ now = 0
    /\ apiKey \in {"", "secret"}

Requests == DOMAIN pc

\* return NextResponse.json(...): the handler of r ends with response out
Return(r, out) ==
    /\ resp' = [resp EXCEPT ![r] = out]
    /\ pc' = [pc EXCEPT ![r] = "done"]

\* fileExt (route.ts:74)
fileExt(r) == toLowerCase(extname(req[r].file.name))

\* route.ts:46-55: a request arrives; the content type is checked and
\* req.formData() is awaited
Arrive(r, E) ==
    /\ pc[r] = "idle"
    /\ \E ct \in E.contentTypes, f \in E.files :
        /\ req' = [req EXCEPT ![r] = [contentType |-> ct, file |-> f]]
        /\ IF ~IsMultipart(ct)
           THEN Return(r, ErrorResponse(ContentTypeError, 400))
           ELSE /\ pc' = [pc EXCEPT ![r] = "formData"]
                /\ UNCHANGED resp
    /\ UNCHANGED <<tmpPath, jsonData, retries, delay, response, calls, waits,
                   attempts, promptBuilt, analysisDataForLLM, parsedFrom, unlinked, wrote, fs, now, apiKey, pageVars, tableVars>>

\* route.ts:55-83: formData() settles; the file is validated and
\* file.arrayBuffer() is awaited
FormData(r, E) ==
    /\ pc[r] = "formData"
    /\ \E throws \in E.formDataThrows :
        LET file == req[r].file
        IN  IF throws THEN Return(r, Caught(FormDataMsg))
            ELSE IF IsNull(file) THEN Return(r, ErrorResponse(NoFileError, 400))
            ELSE IF TooLarge(file.size)
                 THEN Return(r, ErrorResponse(FileSizeError, 400))
            ELSE IF ~Includes(SUPPORTED_EXTENSIONS, fileExt(r))
                 THEN Return(r, ErrorResponse(ExtensionError, 400))
            ELSE /\ pc' = [pc EXCEPT ![r] = "arrayBuffer"]
                 /\ UNCHANGED resp
    /\ UNCHANGED <<req, tmpPath, jsonData, retries, delay, response, calls, waits,
                   attempts, promptBuilt, analysisDataForLLM, parsedFrom, unlinked, wrote, fs, now, apiKey, pageVars, tableVars>>

\* route.ts:83-85: arrayBuffer() settles; tmpPath is named after the clock
\* and fs.writeFile is awaited
ArrayBuffer(r) ==
    /\ pc[r] = "arrayBuffer"
    /\ tmpPath' = [tmpPath EXCEPT ![r] = <<now, fileExt(r)>>]
    /\ pc' = [pc EXCEPT ![r] = "writeFile"]
    /\ UNCHANGED <<req, jsonData, retries, delay, response, resp, calls, waits,
                   attempts, promptBuilt, analysisDataForLLM, parsedFrom, unlinked, wrote, fs, now, apiKey, pageVars, tableVars>>

\* route.ts:85: fs.writeFile settles: the bytes are at tmpPath, replacing
\* what was there, or the write failed and the outer catch answers
WriteFile(r, E) ==
    /\ pc[r] = "writeFile"
    /\ \E throws \in E.writeThrows :
        IF throws
        THEN /\ Return(r, Caught(WriteFileMsg))
             /\ UNCHANGED <<fs, wrote>>
        ELSE /\ fs' = [fs EXCEPT ![tmpPath[r]] = Entry(r, req[r].file.bytes)]
             /\ wrote' = [wrote EXCEPT ![r] = TRUE]
             /\ pc' = [pc EXCEPT ![r] = "parseFile"]
             /\ UNCHANGED resp
    /\ UNCHANGED <<req, tmpPath, jsonData, retries, delay, response, calls, waits,
                   attempts, promptBuilt, analysisDataForLLM, parsedFrom, unlinked, now, apiKey, pageVars, tableVars>>

\* route.ts:88-99: parseFile reads and decodes what is at tmpPath; the
\* finally block then awaits fs.unlink
ParseFile(r) ==
    /\ pc[r] = "parseFile"
    /\ jsonData' = [jsonData EXCEPT ![r] = parseFile(fs, tmpPath[r], fileExt(r))]
    /\ parsedFrom' = [parsedFrom EXCEPT ![r] = fs[tmpPath[r]]]
    /\ pc' = [pc EXCEPT ![r] = "unlink"]
    /\ UNCHANGED <<req, tmpPath, retries, delay, response, resp, calls, waits,
                   attempts, promptBuilt, analysisDataForLLM, unlinked, wrote, fs, now, apiKey, pageVars, tableVars>>

\* route.ts:104-194 after the finally block: the pending return of the
\* parse catch, the empty check, the prompt, the key check and the first
\* turn of the retry loop
AfterFinally(r) ==
    IF jsonData[r].threw
    THEN /\ Return(r, ErrorResponse(ParseError, 400))
         /\ UNCHANGED <<promptBuilt, analysisDataForLLM, retries, delay, calls>>
    ELSE IF NoRows(jsonData[r].rows)
    THEN /\ Return(r, ErrorResponse(EmptyError, 400))
         /\ UNCHANGED <<promptBuilt, analysisDataForLLM, retries, delay, calls>>
    ELSE /\ analysisDataForLLM' = [analysisDataForLLM EXCEPT ![r] =
                Slice(jsonData[r].rows, MAX_ROWS_TO_ANALYZE)]
         /\ promptBuilt' = [promptBuilt EXCEPT ![r] = TRUE]
         /\ IF MissingKey(apiKey)
            THEN /\ Return(r, ErrorResponse(ApiKeyError, 500))
                 /\ UNCHANGED <<retries, delay, calls>>
            ELSE /\ retries' = [retries EXCEPT ![r] = 0]
                 /\ delay' = [delay EXCEPT ![r] = INITIAL_DELAY]
                 /\ calls' = [calls EXCEPT ![r] = 1]
                 /\ pc' = [pc EXCEPT ![r] = "fetch"]
                 /\ UNCHANGED resp

\* route.ts:99-101: fs.unlink settles: the entry at tmpPath is removed, or
\* the failure (nothing there, or refused) is logged and swallowed
Unlink(r, E) ==
    /\ pc[r] = "unlink"
    /\ \E fails \in E.unlinkFails :
        IF fs[tmpPath[r]].exists /\ ~fails
        THEN /\ fs' = Remove(fs, tmpPath[r])
             /\ unlinked' = [unlinked EXCEPT ![r] = "removed"]
        ELSE /\ UNCHANGED fs
             /\ unlinked' = [unlinked EXCEPT ![r] =
                    IF fs[tmpPath[r]].exists THEN "refused" ELSE "missing"]
    /\ AfterFinally(r)
    /\ UNCHANGED <<req, tmpPath, jsonData, response, waits, attempts,
                   parsedFrom, wrote, now, apiKey, pageVars, tableVars>>

\* retries++ with a timer that is never armed: the loop goes on at once
FailedAttempt_NoWait(r) ==
    /\ retries' = [retries EXCEPT ![r] = retries[r] + 1]
    /\ UNCHANGED waits
    /\ pc' = [pc EXCEPT ![r] = "backoff"]

\* route.ts:201-202 and 212-213: retries++ and the backoff timer is armed
FailedAttempt(r) ==
    /\ retries' = [retries EXCEPT ![r] = retries[r] + 1]
    /\ waits' = [waits EXCEPT ![r] = Append(waits[r], delay[r])]
    /\ pc' = [pc EXCEPT ![r] = "backoff"]

\* route.ts:194-207: fetch settles: it rejects, answers 429, or answers
\* anything else and response.json() is awaited
Fetch(r, E) ==
    /\ pc[r] = "fetch"
    /\ \E o \in E.outcomes :
        /\ attempts' = [attempts EXCEPT ![r] = Append(attempts[r], o)]
        /\ IF o.reject
           THEN /\ FailedAttempt(r)
                /\ UNCHANGED response
           ELSE /\ response' = [response EXCEPT ![r] = o]
                /\ IF o.status = 429
                   THEN FailedAttempt(r)
                   ELSE /\ pc' = [pc EXCEPT ![r] = "json"]
                        /\ UNCHANGED <<retries, waits>>
    /\ UNCHANGED <<req, tmpPath, jsonData, delay, resp, calls, promptBuilt, analysisDataForLLM,
                   parsedFrom, unlinked, wrote, fs, now, apiKey, pageVars, tableVars>>

\* response.json() awaited outside the try of the loop: its SyntaxError
\* goes to the outer catch
Json_Outside(r) ==
    /\ pc[r] = "json"
    /\ IF JSONParseThrows(response[r].body)
       THEN Return(r, Caught(SyntaxErrorMsg))
       ELSE Return(r, Finish(jsonData[r].rows, JSONParse(response[r].body)))
    /\ UNCHANGED <<req, tmpPath, jsonData, retries, waits, delay, response, calls, attempts,
                   promptBuilt, analysisDataForLLM, parsedFrom, unlinked, wrote, fs, now, apiKey, pageVars, tableVars>>

\* route.ts:207-257: response.json() settles: it throws and the attempt
\* has failed, or it gives result and the loop is left
Json(r) ==
    /\ pc[r] = "json"
    /\ IF JSONParseThrows(response[r].body)
       THEN /\ FailedAttempt(r)
            /\ UNCHANGED resp
       ELSE /\ Return(r, Finish(jsonData[r].rows, JSONParse(response[r].body)))
            /\ UNCHANGED <<retries, waits>>
    /\ UNCHANGED <<req, tmpPath, jsonData, delay, response, calls, attempts,
                   promptBuilt, analysisDataForLLM, parsedFrom, unlinked, wrote, fs, now, apiKey, pageVars, tableVars>>

\* route.ts:202-204, 213-216, 192: the backoff timer fires; delay doubles
\* and the loop either issues the next fetch or ends without a result
Backoff(r) ==
    /\ pc[r] = "backoff"
    /\ delay' = [delay EXCEPT ![r] = NextDelay(delay[r])]
    /\ IF WhileCond(retries[r])
       THEN /\ calls' = [calls EXCEPT ![r] = calls[r] + 1]
            /\ pc' = [pc EXCEPT ![r] = "fetch"]
            /\ UNCHANGED resp
       ELSE /\ Return(r, Finish(jsonData[r].rows, Undefined))
            /\ UNCHANGED calls
    /\ UNCHANGED <<req, tmpPath, jsonData, retries, response, waits, attempts,
                   promptBuilt, analysisDataForLLM, parsedFrom, unlinked, wrote, fs, now, apiKey, pageVars, tableVars>>

\* the wall clock advances by a millisecond
Tick ==
    /\ now < MaxClock
    /\ now' = now + 1
    /\ UNCHANGED <<pc, req, tmpPath, jsonData, retries, delay, response, resp,
                   calls, waits, attempts, promptBuilt, analysisDataForLLM, parsedFrom, unlinked, wrote,
                   fs, apiKey, pageVars, tableVars>>

\* one step of the handler of request r
Handler(r, E) ==
    \/ FormData(r, E)
    \/ ArrayBuffer(r)
    \/ WriteFile(r, E)
    \/ ParseFile(r)
    \/ Unlink(r, E)
    \/ Fetch(r, E)
    \/ Json(r)
    \/ Backoff(r)

(***************************************************************************)
(* The browser.  UploadPage selects a file and posts it; on success it      *)
(* stores the analysis in DataProvider and in sessionStorage and arms the   *)
(* redirect to /dashboard.  DashboardPage restores the analysis from        *)
(* sessionStorage or redirects to /upload.                                  *)
(***************************************************************************)
ALLOWED_FILE_TYPES ==
    <<"text/csv", "application/vnd.ms-excel",
      "application/vnd.openxmlformats-officedocument.spreadsheetml.sheet",
      "text/plain">>

\* a type check that lets every file through
AllowedType_Any(type) == TRUE

\* ALLOWED_FILE_TYPES.includes(selectedFile.type) (page.tsx:33)
AllowedType(type) == Includes(ALLOWED_FILE_TYPES, type)

\* selectedFile.size > 5 * 1024 * 1024 (page.tsx:39)
TooBig(size) == size > 5 * 1024 * 1024

TypeErrorMsg == "Unsupported file type. Please upload a CSV, Excel (.xls/.xlsx), or text file."
SizeErrorMsg == "File size too large. Maximum 5MB allowed."
SelectErrorMsg == "Please select a file first."
FallbackMsg == "Failed to analyze file"
SuccessMsg == "File uploaded and analyzed successfully! Redirecting to dashboard..."
NetworkMsg == "Failed to fetch"
QuotaMsg == "Failed to execute 'setItem' on 'Storage': Setting the value of 'aiAnalysisData' exceeded the quota."

\* e.target.files: no file, or one file of this type and size
PickedFiles ==
    {<<>>} \cup
    {<<[type |-> t, size |-> sz]>> :
        t \in {"text/csv", "text/plain", "application/pdf", ""},
        sz \in {1024, 5 * 1024 * 1024, 5 * 1024 * 1024 + 1}}

\* JSON.stringify(v) for a value that came out of JSON.parse
JSONStringify(v) == JsonText(v)

\* the bodies /api/analyze answers with
AnalysisA ==
    Obj([success |-> Str("true"), summary |-> Str("ok"), totalRows |-> Num(3)])
AnalysisB ==
    Obj([success |-> Str("true"), summary |-> Str("flat"), totalRows |-> Num(1)])
NoRes == [reject |-> FALSE, ok |-> FALSE, body |-> Undefined]
\* what the fetch of handleSubmit settles to: a network error, or a
\* Response with ok and a body
PageReplies ==
    {[reject |-> TRUE, ok |-> FALSE, body |-> Undefined]} \cup
    {[reject |-> FALSE, ok |-> TRUE, body |-> JsonText(v)] : v \in {AnalysisA, AnalysisB}} \cup
    {[reject |-> FALSE, ok |-> TRUE, body |-> HtmlBody]} \cup
    {[reject |-> FALSE, ok |-> FALSE, body |-> b] :
        b \in {HtmlBody,
               JsonText(Obj([error |-> Str(InternalError), details |-> Str(EmptyResponseMsg)])),
               JsonText(Obj([error |-> Str(FileSizeError)])),
               JsonText(Obj(<<>>))}}

\* what sessionStorage can hold under 'aiAnalysisData' when the app loads:
\* nothing, text that is not JSON, or the JSON of a value
StoredValues ==
    {JNull, Str(""), Str("{corrupt")} \cup
    {JsonText(v) : v \in {JNull, Num(0), Arr(<<>>), AnalysisA}}

\* a || b
OrElse(a, b) == IF Truthy(a) THEN a ELSE b

\* the app loads at one of these pages with one of these stored values;
\* DataProvider and UploadPage start from their useState defaults
InitPage(routes, stored) ==
    /\ pageFile = JNull
    /\ loading = FALSE
    /\ error = JNull
    /\ successMessage = JNull
    /\ submit = "idle"
    /\ res = NoRes
    /\ analysis = JNull
    /\ sessionStorage \in stored
    /\ timers = 0
    /\ route \in routes
    /\ dashEffect = (route = "/dashboard")

\* handleFileChange (page.tsx:27-47); the input is disabled while loading
\* (page.tsx:114)
handleFileChange(files) ==
    /\ route = "/upload"
    /\ ~loading
    /\ successMessage' = JNull
    /\ IF Len(files) > 0
       THEN LET selectedFile == files[1]
            IN  IF ~AllowedType(selectedFile.type)
                THEN error' = Str(TypeErrorMsg) /\ pageFile' = JNull
                ELSE IF TooBig(selectedFile.size)
                THEN error' = Str(SizeErrorMsg) /\ pageFile' = JNull
                ELSE error' = JNull /\ pageFile' = selectedFile
       ELSE error' = JNull /\ UNCHANGED pageFile
    /\ UNCHANGED <<loading, submit, res, analysis, sessionStorage, timers, route,
                   dashEffect, routeVars, tableVars>>

\* handleSubmit up to its fetch (page.tsx:49-67); the button is disabled
\* without a file and while loading (page.tsx:155)
handleSubmit ==
    /\ route = "/upload"
    /\ ~IsNull(pageFile) /\ ~loading
    /\ submit = "idle"
    /\ timers < MaxTimers
    /\ IF IsNull(pageFile)
       THEN /\ error' = Str(SelectErrorMsg)
            /\ UNCHANGED <<loading, successMessage, submit>>
       ELSE /\ loading' = TRUE
            /\ error' = JNull
            /\ successMessage' = JNull
            /\ submit' = "fetch"
    /\ UNCHANGED <<pageFile, res, analysis, sessionStorage, timers, route,
                   dashEffect, routeVars, tableVars>>

\* the catch and finally of handleSubmit (page.tsx:87-92)
SubmitCatch(message) ==
    /\ error' = Str(message)
    /\ loading' = FALSE
    /\ submit' = "idle"
    /\ UNCHANGED successMessage

\* page.tsx:64: the fetch settles
SubmitFetch ==
    /\ submit = "fetch"
    /\ \E reply \in PageReplies :
          IF reply.reject
          THEN SubmitCatch(NetworkMsg) /\ UNCHANGED res
          ELSE /\ res' = reply
               /\ submit' = "json"
               /\ UNCHANGED <<loading, error, successMessage>>
    /\ UNCHANGED <<pageFile, analysis, sessionStorage, timers, route,
                   dashEffect, routeVars, tableVars>>

\* page.tsx:69-92: res.json() settles; a failed request throws its
\* message, a successful one is stored, announced and followed by the
\* redirect timer; sessionStorage.setItem may throw over its quota
SubmitJson ==
    /\ submit = "json"
    /\ IF JSONParseThrows(res.body)
       THEN /\ SubmitCatch(SyntaxErrorMsg)
            /\ UNCHANGED <<analysis, sessionStorage, timers, dashEffect>>
       ELSE IF ~res.ok
       THEN LET errorData == JSONParse(res.body)
            IN  /\ SubmitCatch(OrElse(OrElse(Get(errorData, "details"),
                                             Get(errorData, "error")),
                                      Str(FallbackMsg)).str)
                /\ UNCHANGED <<analysis, sessionStorage, timers, dashEffect>>
       ELSE LET analysisData == JSONParse(res.body)
            IN  /\ analysis' = analysisData
                /\ dashEffect' = (dashEffect \/ (route = "/dashboard" /\ analysisData # analysis))
                /\ \E quota \in BOOLEAN :
                      IF quota
                      THEN /\ SubmitCatch(QuotaMsg)
                           /\ UNCHANGED <<sessionStorage, timers>>
                      ELSE /\ sessionStorage' = JSONStringify(analysisData)
                           /\ successMessage' = Str(SuccessMsg)
                           /\ timers' = timers + 1
                           /\ loading' = FALSE
                           /\ submit' = "idle"
                           /\ UNCHANGED error
    /\ UNCHANGED <<pageFile, res, route, routeVars, tableVars>>

\* page.tsx:83-85: a redirect timer fires: router.push('/dashboard')
RedirectTimer ==
    /\ timers > 0
    /\ timers' = timers - 1
    /\ route' = "/dashboard"
    /\ dashEffect' = (dashEffect \/ route # "/dashboard")
    /\ UNCHANGED <<pageFile, loading, error, successMessage, submit, res, analysis,
                   sessionStorage, routeVars, tableVars>>

\* the effect of DashboardPage (part_000:315-331), run after the mount and
\* after every change of analysis
DashboardEffect ==
    /\ route = "/dashboard"
    /\ dashEffect
    /\ IF ~Truthy(analysis)
       THEN LET storedAnalysis == sessionStorage
            IN  IF Truthy(storedAnalysis)
                THEN IF JSONParseThrows(storedAnalysis)
                     THEN /\ sessionStorage' = JNull
                          /\ route' = "/upload"
                          /\ dashEffect' = FALSE
                          /\ UNCHANGED analysis
                     ELSE /\ analysis' = JSONParse(storedAnalysis)
                          /\ dashEffect' = (JSONParse(storedAnalysis) # analysis)
                          /\ UNCHANGED <<sessionStorage, route>>
                ELSE /\ route' = "/upload"
                     /\ dashEffect' = FALSE
                     /\ UNCHANGED <<analysis, sessionStorage>>
       ELSE /\ dashEffect' = FALSE
            /\ UNCHANGED <<analysis, sessionStorage, route>>
    /\ UNCHANGED <<pageFile, loading, error, successMessage, submit, res, timers,
                   routeVars, tableVars>>

(***************************************************************************)
(* DataTable (part_003).  A cell and the search term are strings, written   *)
(* as sequences of characters; a row is a record of cells.                  *)
(***************************************************************************)
\* pageSize = 10 (part_003:26, part_000:456)
pageSize == 10

\* sortColumn === null
NoColumn == ""

\* toLowerCase of one character, and of a string
LowerChar(c) == CASE c = "A" -> "a" [] c = "B" -> "b" [] OTHER -> c
LowerCase(str) == [i \in 1..Len(str) |-> LowerChar(str[i])]

\* value.includes(term)
StrIncludes(value, term) ==
    \E i \in 0..(Len(value) - Len(term)) : SubSeq(value, i + 1, i + Len(term)) = term

\* the place of a character in the collation order
CharRank(c) ==
    CASE LowerChar(c) = "a" -> 1 [] LowerChar(c) = "b" -> 2
      [] LowerChar(c) = "c" -> 3 [] OTHER -> 4

\* a.localeCompare(b) < 0
RECURSIVE ComesBefore(_, _, _)
ComesBefore(a, b, i) ==
    IF i > Len(a) THEN i <= Len(b)
    ELSE IF i > Len(b) THEN FALSE
    ELSE IF CharRank(a[i]) # CharRank(b[i]) THEN CharRank(a[i]) < CharRank(b[i])
    ELSE ComesBefore(a, b, i + 1)

\* the comparator of part_003:74-87 is negative for (a, b)
SortsBefore(a, b, col, dir) ==
    IF dir = "asc" THEN ComesBefore(a[col], b[col], 1) ELSE ComesBefore(b[col], a[col], 1)

\* [...filtered].sort(comparator): a stable sort, here by insertion
RECURSIVE Insert(_, _, _, _)
Insert(sorted, row, col, dir) ==
    IF sorted = <<>> THEN <<row>>
    ELSE IF SortsBefore(row, sorted[Len(sorted)], col, dir)
    THEN Append(Insert(SubSeq(sorted, 1, Len(sorted) - 1), row, col, dir),
                sorted[Len(sorted)])
    ELSE Append(sorted, row)
RECURSIVE SortRows(_, _, _, _)
SortRows(rows, n, col, dir) ==
    IF n = 0 THEN <<>> ELSE Insert(SortRows(rows, n - 1, col, dir), rows[n], col, dir)

\* filtered.filter(row => columns.some(col => ...)) (part_003:62-70)
RECURSIVE FilterRows(_, _, _)
FilterRows(rows, term, n) ==
    IF n = 0 THEN <<>>
    ELSE LET rest == FilterRows(rows, term, n - 1)
         IN  IF \E col \in DOMAIN rows[n] : StrIncludes(LowerCase(rows[n][col]), term)
             THEN Append(rest, rows[n]) ELSE rest

\* processedData (part_003:58-91)
processedData ==
    LET filtered == IF searchTerm # <<>>
                    THEN FilterRows(data, LowerCase(searchTerm), Len(data))
                    ELSE data
    IN  IF sortColumn # NoColumn
        THEN SortRows(filtered, Len(filtered), sortColumn, sortDirection)
        ELSE filtered

\* Math.ceil(processedData.length / pageSize) (part_003:94)
totalPages == (Len(processedData) + pageSize - 1) \div pageSize

\* the datasets the parent passes: n rows with cells of mixed case
TableRows(n) ==
    [i \in 1..n |-> [name |-> IF i % 2 = 0 THEN <<"A", "b">> ELSE <<"b", "c">>,
                     city |-> IF i % 3 = 0 THEN <<"c">> ELSE <<"x">>]]
Tables == {TableRows(n) : n \in {0, 1, 10, 11, 25}}
SearchTerms == {<<>>, <<"a">>, <<"B">>, <<"z">>, <<"c">>}
ColumnKeys == {"name", "city"}
PageTargets == 0..4

\* DataTable before its parent has rendered it
InitTable ==
    /\ data = <<>>
    /\ searchTerm = <<>>
    /\ sortColumn = NoColumn
    /\ sortDirection = "asc"
    /\ currentPage = 1
    /\ tableEffect = FALSE

\* DataTable mounted with one of the datasets: the useState defaults, and
\* the effect due to run after the first render
InitMounted ==
    /\ data \in Tables
    /\ searchTerm = <<>>
    /\ sortColumn = NoColumn
    /\ sortDirection = "asc"
    /\ currentPage = 1
    /\ tableEffect = TRUE

\* the parent renders DataTable with another data array; like every event
\* below it is taken once the effect of the previous render has run
ReplaceData(d) ==
    /\ ~tableEffect
    /\ data' = d
    /\ tableEffect' = TRUE
    /\ UNCHANGED <<searchTerm, sortColumn, sortDirection, currentPage, routeVars, pageVars>>

\* onChange of the search input: setSearchTerm(e.target.value) (part_003:134)
SearchEdit(term) ==
    /\ ~tableEffect
    /\ searchTerm' = term
    /\ tableEffect' = (term # searchTerm)
    /\ UNCHANGED <<data, sortColumn, sortDirection, currentPage, routeVars, pageVars>>

\* handleSort (part_003:101-110)
handleSort(columnKey, sortable) ==
    /\ ~tableEffect
    /\ IF ~sortable
       THEN UNCHANGED <<sortColumn, sortDirection, tableEffect>>
       ELSE IF sortColumn = columnKey
       THEN /\ sortDirection' = (IF sortDirection = "asc" THEN "desc" ELSE "asc")
            /\ tableEffect' = TRUE
            /\ UNCHANGED sortColumn
       ELSE /\ sortColumn' = columnKey
            /\ sortDirection' = "asc"
            /\ tableEffect' = TRUE
    /\ UNCHANGED <<data, searchTerm, currentPage, routeVars, pageVars>>

\* a range check without its upper end
InRange_NoUpper(newPage, total) == newPage >= 1

\* newPage >= 1 && newPage <= totalPages (part_003:113)
InRange(newPage, total) == newPage >= 1 /\ newPage <= total

\* handlePageChange (part_003:112-116)
handlePageChange(newPage) ==
    /\ ~tableEffect
    /\ IF InRange(newPage, totalPages)
       THEN currentPage' = newPage
       ELSE UNCHANGED currentPage
    /\ UNCHANGED <<data, searchTerm, sortColumn, sortDirection, tableEffect,
                   routeVars, pageVars>>

\* the effect of part_003:53-55, run after a render in which data,
\* searchTerm, sortColumn or sortDirection changed
TableEffect ==
    /\ tableEffect
    /\ currentPage' = 1
    /\ tableEffect' = FALSE
    /\ UNCHANGED <<data, searchTerm, sortColumn, sortDirection, routeVars, pageVars>>

\* the browser while only the endpoint is observed
IdleBrowser == InitPage({"/upload"}, {JNull}) /\ InitTable

\* Spec: one request, meeting every input of FullEnv
Single == {1}
Init == InitFor(Single) /\ IdleBrowser
Next == Tick \/ \E r \in Single : Arrive(r, FullEnv) \/ Handler(r, FullEnv)
Spec == Init /\ [][Next]_vars

\* SpecConc: NumReq requests in flight together, meeting the inputs of ConcEnv
Several == 1..NumReq
InitConc == InitFor(Several) /\ IdleBrowser
NextConc == Tick \/ \E r \in Several : Arrive(r, ConcEnv) \/ Handler(r, ConcEnv)
SpecConc == InitConc /\ [][NextConc]_vars

\* SpecData: one request, meeting the inputs of DataEnv
NextData == Tick \/ \E r \in Single : Arrive(r, DataEnv) \/ Handler(r, DataEnv)
SpecData == Init /\ [][NextData]_vars

\* the endpoint while only the browser is observed
IdleEndpoint == InitFor(Single) /\ apiKey = "secret"

\* SpecPage: the app is loaded at /upload or /dashboard and the user selects
\* files and submits
InitUI == IdleEndpoint /\ InitPage({"/upload", "/dashboard"}, StoredValues) /\ InitTable
NextPage ==
    \/ \E files \in PickedFiles : handleFileChange(files)
    \/ handleSubmit
    \/ SubmitFetch
    \/ SubmitJson
    \/ RedirectTimer
    \/ DashboardEffect
SpecPage == InitUI /\ [][NextPage]_vars

\* SpecTable: DataTable mounted on the dashboard; the user searches, sorts
\* and pages, and the parent replaces the data
InitTableSpec == IdleEndpoint /\ InitPage({"/dashboard"}, {JNull}) /\ InitMounted
NextTable ==
    \/ \E d \in Tables : ReplaceData(d)
    \/ \E term \in SearchTerms : SearchEdit(term)
    \/ \E columnKey \in ColumnKeys, sortable \in BOOLEAN : handleSort(columnKey, sortable)
    \/ \E newPage \in PageTargets : handlePageChange(newPage)
    \/ TableEffect
SpecTable == InitTableSpec /\ [][NextTable]_vars

\* FairPage: SpecPage with a browser that runs every effect, timer and
\* continuation that is ready
FairPage ==
    /\ SpecPage
    /\ WF_vars(DashboardEffect)
    /\ WF_vars(RedirectTimer)
    /\ WF_vars(SubmitFetch)
    /\ WF_vars(SubmitJson)

\* FairSpec: Spec with an event loop that runs every continuation that is
\* ready, and a remote endpoint, file system and timers that always settle
FairSpec == Spec /\ \A r \in Single : WF_vars(Handler(r, FullEnv))

(***************************************************************************)
(* Vocabulary of the properties.                                            *)
(***************************************************************************)
Done(r) == pc[r] = "done"
Last(seq) == seq[Len(seq)]

\* the handler of r has been through parseFile and the finally block
Cleaned(r) == unlinked[r] # "none"

\* the failure kinds of the specification, as the responses POST gives
ConfigurationError == ErrorResponse(ApiKeyError, 500)
EmptyDataset == ErrorResponse(EmptyError, 400)
ParseFailure == ErrorResponse(ParseError, 400)
RemoteAnalysisError == Caught(EmptyResponseMsg)
MalformedResponse == Caught(JsonParseMsg)
InvalidContract == Caught(StructureMsg)

\* a structured error: a 4xx/5xx status and a body of error and details only
StructuredError(out) ==
    /\ out.status >= 400
    /\ "error" \in DOMAIN out.body
    /\ DOMAIN out.body \subseteq {"error", "details"}

\* a reply that carries this model output as the text of its first part
ReplyWith(status, text) == Reply(status, JsonText(Candidate(Part(text))))

\* model outputs that follow the analysis contract
ContractOutputs ==
    {MkObj(Str("ok"), Arr(<<BarChart>>), k) :
        k \in {Undefined, Arr(<<Str("Revenue: $100")>>)}}

\* the attempt ended in HTTP 429 or in a transport failure
RateLimited(o) == ~o.reject /\ o.status = 429
TransportFailure(o) == o.reject

\* C1: when the remote endpoint answers 429 on the first two attempts and
\* then gives a usable reply, the request makes exactly 3 calls, waits
\* 1000 ms and then 2000 ms, and ends with the success response built from
\* the third reply.
C1_TwoRateLimitsThenSuccess ==
    \A r \in Requests :
        \A v \in ContractOutputs :
            (/\ Done(r)
             /\ Len(attempts[r]) >= 3
             /\ RateLimited(attempts[r][1])
             /\ RateLimited(attempts[r][2])
             /\ attempts[r][3] = ReplyWith(200, JsonText(v)))
            => /\ calls[r] = 3
               /\ Len(attempts[r]) = 3
               /\ waits[r] = <<1000, 2000>>
               /\ resp[r].status = 200
               /\ resp[r].body =
                    [success |-> TRUE,
                     summary |-> v.obj.summary,
                     kpis |-> IF "kpis" \in DOMAIN v.obj THEN v.obj.kpis ELSE Arr(<<>>),
                     charts |-> v.obj.charts,
                     columns |-> Columns(jsonData[r].rows),
                     totalRows |-> Len(jsonData[r].rows),
                     rawData |-> jsonData[r].rows]

C1_Witness ==
    \E r \in Requests :
        /\ Done(r)
        /\ Len(attempts[r]) = 3
        /\ RateLimited(attempts[r][1])
        /\ RateLimited(attempts[r][2])
        /\ attempts[r][3] = ReplyWith(200, JsonText(GoodOutput))
        /\ resp[r].status = 200

\* C2: a reply whose status is neither 2xx nor 429 is never retried: one
\* call, no backoff wait, and the request fails with RemoteAnalysisError.
C2_OtherStatusNotRetried ==
    \A r \in Requests :
        (/\ Len(attempts[r]) >= 1
         /\ ~attempts[r][1].reject
         /\ attempts[r][1].status = 500)
        => /\ calls[r] = 1
           /\ waits[r] = <<>>
           /\ Done(r) => resp[r] = RemoteAnalysisError

\* C3: a request makes at most MAX_RETRIES outbound calls, and once it has
\* arrived it ends with a response.
C3_BoundedCallsAndTermination ==
    /\ [](\A r \in Single : calls[r] <= MAX_RETRIES)
    /\ \A r \in Single :
          (pc[r] # "idle") ~> (Done(r) /\ resp[r] # NoResponse)

C3_Witness ==
    \E r \in Requests :
        Done(r) /\ calls[r] = MAX_RETRIES /\ resp[r] # NoResponse

\* every attempt the loop allows has been made and each ended in 429 or in
\* a transport failure
Exhausted(r) ==
    /\ Done(r)
    /\ Len(attempts[r]) >= 1
    /\ \A i \in 1..Len(attempts[r]) :
          RateLimited(attempts[r][i]) \/ TransportFailure(attempts[r][i])

\* what the final attempt observed, as text
Observed(o) == IF o.reject THEN "fetch failed" ELSE ToString(o.status)

\* C4 as claimed: when every allowed attempt fails, the error response
\* carries the status or the transport error the final attempt observed.
C4_CarriesLastObserved ==
    \A r \in Requests :
        Exhausted(r) =>
            /\ StructuredError(resp[r])
            /\ \E f \in DOMAIN resp[r].body :
                  resp[r].body[f] = Observed(Last(attempts[r]))

\* C4 as amended: when every allowed attempt fails, MAX_RETRIES attempts
\* were made and the request fails with status 500 and the fixed details
\* "Invalid or empty response from Gemini API.", the same response whether
\* the final attempt met a 429 or a transport failure.
C4_FixedMessageAfterExhaustion ==
    \A r \in Requests :
        Exhausted(r) =>
            /\ Len(attempts[r]) = MAX_RETRIES
            /\ resp[r] =
                 [status |-> 500,
                  body |-> [error |-> InternalError, details |-> EmptyResponseMsg]]

C4_Witness ==
    \E r \in Requests :
        /\ Exhausted(r)
        /\ TransportFailure(Last(attempts[r]))
        /\ RateLimited(attempts[r][1])

C6_EmptyDatasetShortCircuits ==
    \A r \in Requests :
        (Cleaned(r) /\ ~jsonData[r].threw /\ Len(jsonData[r].rows) = 0)
        => /\ Done(r)
           /\ resp[r] = EmptyDataset
           /\ ~promptBuilt[r]
           /\ calls[r] = 0

C6_Witness ==
    \E r \in Requests :
        /\ Cleaned(r)
        /\ ~jsonData[r].threw
        /\ req[r].file.bytes = HeaderOnlyBytes
        /\ resp[r] = EmptyDataset

\* C7: requests handled concurrently each parse the bytes of their own
\* upload and clean up their own temporary file: what parseFile reads is
\* what this request wrote, the unlink finds it, and a success response
\* carries the rows of this request's file.
C7_RequestsIndependent ==
    \A r \in Requests :
        /\ (pc[r] = "unlink" \/ Cleaned(r))
              => parsedFrom[r] = Entry(r, req[r].file.bytes)
        /\ Cleaned(r) => unlinked[r] # "missing"
        /\ (Done(r) /\ resp[r].status = 200)
              => resp[r].body.rawData = sheet_to_json(req[r].file.bytes)

\* the temporary file r wrote is still in the directory
OwnFileExists(r) ==
    /\ tmpPath[r] \in Paths
    /\ fs[tmpPath[r]].exists
    /\ fs[tmpPath[r]].by = r

\* C8 as claimed: when the response is returned the temporary file the
\* request wrote has been deleted.
C8_TempFileDeleted ==
    \A r \in Requests : (Done(r) /\ wrote[r]) => ~OwnFileExists(r)

\* C8 as amended: on every exit path after the write an unlink of the
\* temporary file has been attempted before the response is returned; the
\* file is gone unless that unlink was refused, in which case the failure
\* is swallowed and the file stays.
C8_TempFileUnlinkAttempted ==
    \A r \in Requests :
        (Done(r) /\ wrote[r]) =>
            /\ Cleaned(r)
            /\ OwnFileExists(r) => unlinked[r] = "refused"

C8_Witness ==
    \E r \in Requests :
        /\ Done(r)
        /\ wrote[r]
        /\ unlinked[r] = "removed"
        /\ ~OwnFileExists(r)
        /\ resp[r].status = 200

\* the model output has no summary, or its charts is not an array
BreaksContract(v) ==
    \/ ~(IsObject(v) /\ "summary" \in DOMAIN v.obj)
    \/ ~IsArray(Get(v, "charts"))

\* C9: when the model's JSON text parses but has no summary, or charts is
\* not an array, the request fails with InvalidContract, a structured error
\* without a success flag or any analysis field.
C9_InvalidContract ==
    \A r \in Requests :
        \A v \in ModelOutputs :
            (/\ Done(r)
             /\ Len(attempts[r]) >= 1
             /\ Last(attempts[r]) = ReplyWith(200, JsonText(v))
             /\ BreaksContract(v))
            => /\ resp[r] = InvalidContract
               /\ StructuredError(resp[r])

\* C10: when the remote call succeeds but the text of the first part is not
\* valid JSON, the request fails with MalformedResponse, which differs from
\* RemoteAnalysisError and InvalidContract, and no call follows that reply:
\* as the first reply it leaves the request with exactly one call.
C10_MalformedResponse ==
    \A r \in Requests :
        \A i \in 1..Len(attempts[r]) :
            \A t \in {Undefined, Str("not json")} :
                (attempts[r][i] = ReplyWith(200, t) /\ pc[r] # "json")
                => /\ Done(r)
                   /\ resp[r] = MalformedResponse
                   /\ resp[r] # RemoteAnalysisError
                   /\ resp[r] # InvalidContract
                   /\ Len(attempts[r]) = i
                   /\ calls[r] = i
                   /\ (i = 1 => waits[r] = <<>>)

C10_Witness ==
    \E r \in Requests :
        /\ Done(r)
        /\ attempts[r] = <<ReplyWith(200, Str("not json"))>>
        /\ calls[r] = 1
        /\ resp[r] = MalformedResponse

\* the handler of r returned the success response
Success(r) == Done(r) /\ "success" \in DOMAIN resp[r].body

\* C11: the success response reports the full dataset: totalRows is the
\* number of rows parsed and rawData is every parsed row in order, also when
\* there are more than MAX_ROWS_TO_ANALYZE of them.
C11_FullDatasetReturned ==
    \A r \in Requests :
        Success(r) =>
            /\ resp[r].body.totalRows = Len(jsonData[r].rows)
            /\ resp[r].body.rawData = jsonData[r].rows
            /\ resp[r].body.rawData = sheet_to_json(parsedFrom[r].bytes)

C11_Witness ==
    \E r \in Requests :
        /\ Success(r)
        /\ resp[r].body.totalRows = MAX_ROWS_TO_ANALYZE + 1
        /\ Len(resp[r].body.rawData) = MAX_ROWS_TO_ANALYZE + 1

\* C12: the sample handed to the prompt is the first
\* min(n, MAX_ROWS_TO_ANALYZE) rows of the n parsed rows, each unchanged and
\* in order, and the parsed dataset is not modified once it has been parsed.
C12_SampleIsPrefix ==
    /\ [](\A r \in Single :
            promptBuilt[r] =>
                LET rows == jsonData[r].rows
                    sample == analysisDataForLLM[r]
                    k == IF Len(rows) < MAX_ROWS_TO_ANALYZE THEN Len(rows)
                         ELSE MAX_ROWS_TO_ANALYZE
                IN  /\ Len(sample) = k
                    /\ \A i \in 1..k : sample[i] = rows[i])
    /\ [][\A r \in Single :
            (pc[r] = "unlink" \/ Cleaned(r)) => jsonData'[r] = jsonData[r]]_vars

C12_Witness ==
    \E r \in Requests :
        /\ promptBuilt[r]
        /\ Len(jsonData[r].rows) = MAX_ROWS_TO_ANALYZE + 1
        /\ Len(analysisDataForLLM[r]) = MAX_ROWS_TO_ANALYZE
        /\ analysisDataForLLM[r][MAX_ROWS_TO_ANALYZE] =
              jsonData[r].rows[MAX_ROWS_TO_ANALYZE]

\* C13: for a file with at least one data row, columns is the header of the
\* parsed file, key for key and in order, also when a cell of the first data
\* row is empty.
C13_ColumnsAreHeaderKeys ==
    \A r \in Requests :
        (Success(r) /\ parsedFrom[r].exists)
        => resp[r].body.columns = parsedFrom[r].bytes.header

\* the keys from index i on, added to acc in the order first seen
RECURSIVE AddKeys(_, _, _)
AddKeys(acc, keys, i) ==
    IF i > Len(keys) THEN acc
    ELSE AddKeys(IF Includes(acc, keys[i]) THEN acc ELSE Append(acc, keys[i]),
                 keys, i + 1)
\* the keys of rows lo..hi in the order first seen, halving the range
RECURSIVE UnionOfKeys(_, _, _)
UnionOfKeys(rows, lo, hi) ==
    IF lo > hi THEN <<>>
    ELSE IF lo = hi THEN ObjectKeys(rows[lo])
    ELSE LET mid == (lo + hi) \div 2
         IN  AddKeys(UnionOfKeys(rows, lo, mid), UnionOfKeys(rows, mid + 1, hi), 1)

\* C14: every key of every row of rawData is in columns, and columns is the
\* union of the rows' keys in the order first seen.
C14_ColumnsCoverEveryRow ==
    \A r \in Requests :
        Success(r) =>
            /\ \A i \in 1..Len(resp[r].body.rawData) :
                  \A j \in 1..Len(resp[r].body.rawData[i]) :
                      Includes(resp[r].body.columns, resp[r].body.rawData[i][j][1])
            /\ resp[r].body.columns = UnionOfKeys(resp[r].body.rawData, 1, Len(resp[r].body.rawData))

\* the form of r was decoded and held a file, which the handler examined
FileExamined(r) ==
    /\ pc[r] \notin {"idle", "formData"}
    /\ IsMultipart(req[r].contentType)
    /\ ~IsNull(req[r].file)
    /\ resp[r] # Caught(FormDataMsg)

\* the extensions of the allowed set in the spellings that are uploaded
AllowedSpellings == {".csv", ".CSV", ".xlsx", ".XLSX", ".xls", ".txt", ".Txt"}
AllowedName(name) == extname(name) \in AllowedSpellings

\* the handler of r has touched neither the temporary directory, nor the
\* parser, nor the remote endpoint
NothingStarted(r) ==
    /\ tmpPath[r] = NoPath
    /\ ~wrote[r]
    /\ ~parsedFrom[r].exists
    /\ unlinked[r] = "none"
    /\ ~promptBuilt[r]
    /\ calls[r] = 0

\* C15: an upload whose extension, compared without regard to case, is not
\* one of .csv, .xlsx, .xls, .txt is rejected with a 4xx response before any
\* temporary file is written, any parse is attempted or any outbound call is
\* made; an upload whose extension is in the set is never rejected for its
\* extension.
C15_ExtensionAllowList ==
    \A r \in Requests :
        FileExamined(r) =>
            /\ ~AllowedName(req[r].file.name) =>
                  /\ Done(r)
                  /\ resp[r].status >= 400 /\ resp[r].status < 500
                  /\ "error" \in DOMAIN resp[r].body
                  /\ NothingStarted(r)
            /\ AllowedName(req[r].file.name) =>
                  resp[r] # ErrorResponse(ExtensionError, 400)

C15_Witness ==
    \E r \in Requests :
        /\ FileExamined(r)
        /\ extname(req[r].file.name) = ".PDF"
        /\ resp[r] = ErrorResponse(ExtensionError, 400)
        /\ NothingStarted(r)

\* the response to an upload over the size limit
PayloadTooLarge == ErrorResponse(FileSizeError, 400)

\* C16: an upload is rejected with PayloadTooLarge exactly when its size is
\* greater than MAX_FILE_SIZE (10 * 1024 * 1024 bytes); a file of exactly
\* MAX_FILE_SIZE bytes passes the size check, and a rejected upload never
\* reaches the temporary-file write, the parser or the remote endpoint.
C16_SizeLimit ==
    \A r \in Requests :
        FileExamined(r) =>
            /\ resp[r] = PayloadTooLarge <=> req[r].file.size > 10 * 1024 * 1024
            /\ resp[r] = PayloadTooLarge => Done(r) /\ NothingStarted(r)

C16_Witness ==
    \E r \in Requests :
        /\ FileExamined(r)
        /\ req[r].file.size = MAX_FILE_SIZE + 1
        /\ resp[r] = PayloadTooLarge
        /\ NothingStarted(r)

\* the handler of r returned an error response
Failed(r) == Done(r) /\ "error" \in DOMAIN resp[r].body

\* the failure kinds by the error the response names
BadInput == {ContentTypeError, NoFileError}
TooLargeInput == {FileSizeError}
UnsupportedInput == {ExtensionError}
UnparsableInput == {ParseError, EmptyError}
ServerSide == {ApiKeyError, InternalError}

\* C17 as claimed: 400 for bad input, 413 for a file over the limit, 415
\* for an unsupported type, 422 for unparsable or empty data, 500 for
\* configuration, remote and internal failures.
C17_StatusPerKind ==
    \A r \in Requests :
        Failed(r) =>
            resp[r].status =
               CASE resp[r].body.error \in BadInput -> 400
                 [] resp[r].body.error \in TooLargeInput -> 413
                 [] resp[r].body.error \in UnsupportedInput -> 415
                 [] resp[r].body.error \in UnparsableInput -> 422
                 [] resp[r].body.error \in ServerSide -> 500

\* C17 as amended: every failure caused by the upload (content type, missing
\* file, size over the limit, unsupported extension, unparsable file, empty
\* dataset) has status 400, and every configuration, remote or internal
\* failure has status 500; no other error status is returned.
C17_ClientErrors400ServerErrors500 ==
    \A r \in Requests :
        Failed(r) =>
            /\ resp[r].body.error \in
                  BadInput \cup TooLargeInput \cup UnsupportedInput
                     \cup UnparsableInput \cup ServerSide
            /\ resp[r].status =
                  IF resp[r].body.error \in ServerSide THEN 500 ELSE 400

C17_Witness ==
    \E r \in Requests :
        /\ Failed(r)
        /\ resp[r].body.error = FileSizeError
        /\ resp[r].status = 400

\* a stage of the handler of r failed: the temporary-file write, the parse,
\* the remote call, the extraction of the text, the JSON parse or the
\* contract check
StageFailed(r) ==
    \/ tmpPath[r] # NoPath /\ ~wrote[r]
    \/ jsonData[r].threw
    \/ /\ attempts[r] # <<>>
       /\ \A v \in ModelOutputs :
             BreaksContract(v) \/ Last(attempts[r]).body # JsonText(Candidate(Part(JsonText(v))))

\* the deletion of the temporary file failed
UnlinkFailed(r) == unlinked[r] \in {"refused", "missing"}

\* C18 as claimed: a failure at any stage, the deletion of the temporary
\* file included, ends the request with a structured error.
C18_EveryFailureIsAnError ==
    \A r \in Requests :
        (Done(r) /\ (StageFailed(r) \/ UnlinkFailed(r))) => StructuredError(resp[r])

\* C18 as amended: a request that has ended has exactly one response, which
\* never changes; it is the success response or a structured error with a
\* 4xx/5xx status, and a failure of the form decoding, the temporary-file
\* write, the parse, the remote call, the response extraction, the JSON
\* parse or the contract check always gives the structured error.  A failed
\* deletion of the temporary file is swallowed and does not fail the request.
C18_OneStructuredResponse ==
    /\ [](\A r \in Single :
            /\ Done(r) <=> resp[r] # NoResponse
            /\ Done(r) => (Success(r) \/ StructuredError(resp[r]))
            /\ (Done(r) /\ StageFailed(r)) => StructuredError(resp[r])
            /\ Success(r) => (wrote[r] /\ attempts[r] # <<>>))
    /\ [][\A r \in Single : resp[r] # NoResponse => resp'[r] = resp[r]]_vars

C18_Witness ==
    \E r \in Requests :
        /\ Success(r)
        /\ unlinked[r] = "refused"
        /\ ~StageFailed(r)

\* the decoder threw on the bytes of the upload
DecoderThrew(r) ==
    /\ Cleaned(r)
    /\ parsedFrom[r].exists
    /\ parsedFrom[r].bytes.corrupt

\* C19 as claimed: when the decoder throws, the request fails with
\* ParseFailure, no prompt is built, no outbound call is made, and the
\* temporary file has been deleted.
C19_ParseFailureFileDeleted ==
    \A r \in Requests :
        DecoderThrew(r) =>
            /\ Done(r)
            /\ resp[r] = ParseFailure
            /\ ~promptBuilt[r]
            /\ calls[r] = 0
            /\ ~OwnFileExists(r)

\* C19 as amended: when the decoder throws, the request fails with
\* ParseFailure, no prompt is built and no outbound call is made; the
\* deletion of the temporary file has been attempted, and the file is gone
\* unless that deletion was refused.
C19_ParseFailureUnlinkAttempted ==
    \A r \in Requests :
        DecoderThrew(r) =>
            /\ Done(r)
            /\ jsonData[r].threw
            /\ resp[r] = ParseFailure
            /\ ~promptBuilt[r]
            /\ calls[r] = 0
            /\ attempts[r] = <<>>
            /\ OwnFileExists(r) => unlinked[r] = "refused"

C19_Witness ==
    \E r \in Requests :
        /\ DecoderThrew(r)
        /\ resp[r] = ParseFailure
        /\ unlinked[r] = "removed"
        /\ ~OwnFileExists(r)

\* the parsed model output has a non-empty string summary and an array charts
MeetsContract(v) ==
    /\ IsObject(v)
    /\ IsString(Get(v, "summary"))
    /\ Get(v, "summary") # Str("")
    /\ IsArray(Get(v, "charts"))

\* C20: every success response has a summary that is a non-empty string and
\* a charts that is an array, and any parsed model output without them gives
\* InvalidContract instead of a success response.
C20_SuccessMeetsContract ==
    \A r \in Requests :
        /\ Success(r) =>
              /\ IsString(resp[r].body.summary)
              /\ resp[r].body.summary # Str("")
              /\ IsArray(resp[r].body.charts)
        /\ \A v \in ModelOutputs :
              (/\ Done(r)
               /\ attempts[r] # <<>>
               /\ Last(attempts[r]).body = JsonText(Candidate(Part(JsonText(v))))
               /\ ~MeetsContract(v))
              => resp[r] = InvalidContract

\* the model output the last reply carried as the text of its first part
LastOutputIs(r, v) ==
    /\ attempts[r] # <<>>
    /\ Last(attempts[r]).body = JsonText(Candidate(Part(JsonText(v))))

\* C21: in every success response kpis is a sequence: the model's kpis when
\* the output has one, the empty sequence when it has none; it is never
\* absent and never a value that is not a sequence.
C21_KpisIsSequence ==
    \A r \in Requests :
        Success(r) =>
            /\ "kpis" \in DOMAIN resp[r].body
            /\ IsArray(resp[r].body.kpis)
            /\ \A v \in ModelOutputs :
                  LastOutputIs(r, v) =>
                      resp[r].body.kpis =
                         IF IsUndefined(Get(v, "kpis")) THEN Arr(<<>>) ELSE Get(v, "kpis")

\* C22: within one request at most one outbound call is in flight: the
\* calls issued exceed the attempts completed by one exactly while the
\* handler awaits fetch, and a further call is issued only by the firing of
\* the backoff timer, when every call issued has completed and a wait has
\* been armed after each of them.
C22_OneCallInFlight ==
    /\ [](\A r \in Single :
            /\ calls[r] - Len(attempts[r]) \in {0, 1}
            /\ calls[r] - Len(attempts[r]) = 1 <=> pc[r] = "fetch")
    /\ [][\A r \in Single :
            (calls'[r] # calls[r] /\ calls[r] >= 1) =>
                /\ calls'[r] = calls[r] + 1
                /\ pc[r] = "backoff"
                /\ Len(attempts[r]) = calls[r]
                /\ Len(waits[r]) = calls[r]]_vars

C22_Witness ==
    \E r \in Requests :
        /\ pc[r] = "fetch"
        /\ calls[r] = 3
        /\ Len(attempts[r]) = 2
        /\ Len(waits[r]) = 2

\* C23: the wait after the k-th failed attempt is 1000 * 2^(k-1) ms,
\* whether the attempt ended in HTTP 429 or in a transport failure; both
\* kinds of failure advance the one counter retries and the one delay.
C23_BackoffSequence ==
    \A r \in Requests :
        /\ Len(waits[r]) = retries[r]
        /\ Len(waits[r]) <= Len(attempts[r])
        /\ \A k \in 1..Len(waits[r]) : waits[r][k] = 1000 * 2^(k - 1)

C23_Witness ==
    \E r \in Requests :
        /\ Len(waits[r]) = 3
        /\ TransportFailure(attempts[r][1])
        /\ RateLimited(attempts[r][2])
        /\ TransportFailure(attempts[r][3])
        /\ waits[r] = <<1000, 2000, 4000>>

\* the handler of r is in the remote phase: a call is in flight, its body
\* is being decoded, or a backoff wait is running
InRemotePhase(r) == pc[r] \in {"fetch", "json", "backoff"}

\* C24 as claimed: at no point during the remote call or its backoff waits
\* does the temporary file of the request exist.
C24_NoTempFileDuringCall ==
    \A r \in Requests : InRemotePhase(r) => ~OwnFileExists(r)

\* C24 as amended: the deletion of the temporary file has been attempted
\* before the first outbound call is issued; during the remote call and its
\* backoff waits the file exists only if that deletion was refused.
C24_UnlinkBeforeFirstCall ==
    \A r \in Requests :
        (InRemotePhase(r) \/ calls[r] >= 1) =>
            /\ Cleaned(r)
            /\ OwnFileExists(r) => unlinked[r] = "refused"

C24_Witness ==
    \E r \in Requests :
        /\ pc[r] = "backoff"
        /\ unlinked[r] = "removed"
        /\ ~OwnFileExists(r)

\* attempt o got a reply other than 429 whose body is not JSON
Undecodable(o) ==
    ~o.reject /\ o.status # 429 /\ JSONParseThrows(o.body)

\* C25: a reply with a status other than 429 whose body response.json()
\* cannot decode is handled as a transport failure is: retries is
\* incremented, the current delay is waited and then doubled, and a further
\* call is issued while retries < MAX_RETRIES; after the last allowed
\* attempt the request fails as it does when every attempt fails.
C25_UndecodableBodyRetried ==
    \A r \in Requests :
        \A i \in 1..Len(attempts[r]) :
            (Undecodable(attempts[r][i]) /\ (i < Len(attempts[r]) \/ pc[r] # "json"))
            => /\ retries[r] >= i
               /\ Len(waits[r]) >= i
               /\ waits[r][i] = INITIAL_DELAY * 2^(i - 1)
               /\ (pc[r] = "backoff" /\ Len(waits[r]) = i)
                     \/ (delay[r] >= 2 * waits[r][i])
               /\ (i < MAX_RETRIES /\ ~(pc[r] = "backoff" /\ Len(waits[r]) = i))
                     => calls[r] >= i + 1
               /\ (i = MAX_RETRIES /\ Done(r))
                     => (calls[r] = MAX_RETRIES /\ resp[r] = RemoteAnalysisError)

C25_Witness ==
    \E r \in Requests :
        /\ Len(attempts[r]) = 2
        /\ Undecodable(attempts[r][1])
        /\ attempts[r][1].status = 500
        /\ waits[r] = <<1000>>
        /\ calls[r] = 2

\* every attempt the loop allows has been made and none gave a result
AllFailed(r) ==
    /\ Done(r)
    /\ Len(attempts[r]) = MAX_RETRIES
    /\ \A i \in 1..Len(attempts[r]) :
          \/ RateLimited(attempts[r][i])
          \/ TransportFailure(attempts[r][i])
          \/ Undecodable(attempts[r][i])

\* C26: when all 5 attempts fail a backoff wait follows each of them, the
\* last included: exactly 5 waits of 1, 2, 4, 8 and 16 s elapse before the
\* error response, and no outbound call follows the last wait.
C26_FiveWaitsNoSixthCall ==
    \A r \in Requests :
        /\ AllFailed(r) =>
              /\ waits[r] = <<1000, 2000, 4000, 8000, 16000>>
              /\ calls[r] = 5
              /\ resp[r] = RemoteAnalysisError
        /\ (Len(attempts[r]) = MAX_RETRIES /\ pc[r] = "backoff") =>
              (Len(waits[r]) = 5 /\ resp[r] = NoResponse)
        /\ (Done(r) /\ attempts[r] # <<>> /\ Len(attempts[r]) < MAX_RETRIES) =>
              (~RateLimited(Last(attempts[r])) /\ ~TransportFailure(Last(attempts[r])))

C26_Witness ==
    \E r \in Requests :
        /\ AllFailed(r)
        /\ Len(waits[r]) = 5
        /\ calls[r] = 5
        /\ resp[r] = RemoteAnalysisError

\* C27: on the upload page error and successMessage are never both set;
\* loading is true exactly while a submit's request is in flight, so it is
\* false once handleSubmit has finished, on success and on failure; and a
\* selected file always has an allowed MIME type and at most 5 MiB.
C27_UploadPageInvariant ==
    /\ ~(~IsNull(error) /\ ~IsNull(successMessage))
    /\ loading <=> submit \in {"fetch", "json"}
    /\ ~IsNull(pageFile) =>
          /\ pageFile.type \in
                {"text/csv", "application/vnd.ms-excel",
                 "application/vnd.openxmlformats-officedocument.spreadsheetml.sheet",
                 "text/plain"}
          /\ pageFile.size <= 5 * 1024 * 1024

C27_Witness ==
    /\ ~IsNull(pageFile)
    /\ pageFile.size = 5 * 1024 * 1024
    /\ submit = "idle"
    /\ ~loading
    /\ error = Str(EmptyResponseMsg)
    /\ IsNull(successMessage)
    /\ sessionStorage = JsonText(AnalysisA)

\* C28: handleSubmit changes the shared analysis only on success: when the
\* request fails (network error or a response that is not ok) analysis,
\* sessionStorage['aiAnalysisData'] and the redirect timers stay as they
\* are; when it succeeds analysis and the stored text are set to the same
\* response body and the redirect to /dashboard is scheduled.
C28_SharedAnalysisOnlyOnSuccess ==
    [][/\ ((submit = "fetch" /\ submit' = "idle")
            \/ (submit = "json" /\ submit' = "idle" /\ ~res.ok))
          => /\ analysis' = analysis
             /\ sessionStorage' = sessionStorage
             /\ timers' = timers
       /\ (submit = "json" /\ submit' = "idle" /\ res.ok /\ ~JSONParseThrows(res.body))
          => /\ analysis' = JSONParse(res.body)
             /\ ~JSONParseThrows(sessionStorage')
             /\ JSONParse(sessionStorage') = analysis'
             /\ timers' = timers + 1]_vars

\* C29: a dashboard mounted with a null analysis eventually holds a
\* non-null analysis restored from sessionStorage or has redirected to
\* /upload, whatever is stored; stored text that is not JSON is removed
\* before the redirect.
C29_DashboardRestoresOrRedirects ==
    /\ (route = "/dashboard" /\ IsNull(analysis))
          ~> (route = "/upload" \/ (route = "/dashboard" /\ ~IsNull(analysis)))
    /\ [][(route = "/dashboard" /\ route' = "/upload"
            /\ Truthy(sessionStorage) /\ JSONParseThrows(sessionStorage))
           => sessionStorage' = JNull]_vars

\* max(1, totalPages)
LastPage == IF totalPages > 1 THEN totalPages ELSE 1

\* C30: once the effects have run currentPage is within
\* 1..max(1, totalPages); handlePageChange moves the page only to a target
\* within 1..totalPages; and every change of data, searchTerm, sortColumn or
\* sortDirection is followed by the effect that resets currentPage to 1.
C30_CurrentPageInRange ==
    /\ [](~tableEffect => (currentPage >= 1 /\ currentPage <= LastPage))
    /\ [][(~tableEffect /\ currentPage' # currentPage)
            => (currentPage' >= 1 /\ currentPage' <= totalPages)]_vars
    /\ [][<<data, searchTerm, sortColumn, sortDirection>>'
              # <<data, searchTerm, sortColumn, sortDirection>> => tableEffect']_vars
    /\ [][tableEffect => (currentPage' = 1 /\ ~tableEffect')]_vars

C30_Witness ==
    /\ ~tableEffect
    /\ Len(data) = 25
    /\ searchTerm = <<"a">>
    /\ sortColumn = "name"
    /\ totalPages = 2
    /\ currentPage = 2

====
